---- MODULE Spec2Model ----
(***************************************************************************)
(* Model of the Arima Kinen prediction utilities (src/app_utils.py and     *)
(* src/bundle/app_utils.py).                                               *)
(*                                                                         *)
(* Numbers are fixed-point integers in units of 1/10000 (ONE is 1.0), so   *)
(* that the weights 0.5, 0.3, 0.2, the bonus 1.5 and rounding to two       *)
(* decimals are exact.  Strings are sequences of one-character strings.    *)
(* The Japanese column names, labels and glyphs of the source are written  *)
(* in ASCII; each definition names the original in its comment.            *)
(***************************************************************************)
EXTENDS Integers, Sequences, FiniteSets, TLC

VARIABLES
    op,          \* the entry point that is called
    df,          \* its table argument: [columns, rows]
    number,      \* its entrant-number argument
    events,      \* its events argument (NoneEvents when not supplied)
    pc,          \* "call" before the entry point runs, "done" after
    content,     \* the collaborator's reply (_call_llm), NoContent if not called
    llmCalls,    \* number of collaborator calls made
    scored,      \* the index of the scored and sorted frame, <<>> if none was built
    ret,         \* the value returned
    raised,      \* the exception that escaped to the caller, "none" if none
    coerceValue,    \* the value argument of _safe_numeric
    coerceDefault,  \* the default argument of _safe_numeric
    secrets,     \* st.secrets of the bundled app: its OPENAI_API_KEY entry
    api_key,     \* the app's api_key
    client,      \* the app's client: "None" or "OpenAI"
    notice,      \* the mode notice the app shows: "none", "warning" or "info"
    errorShown,  \* whether the app reported that the client failed to initialise
    data,        \* the app's data: "None", "empty" or "loaded"
    button,      \* the button pressed in this run of the app script, "none" if none
    invoked      \* the utility function the app called in this run, "none" if none

coerceVars == <<coerceValue, coerceDefault>>
appVars == <<secrets, api_key, client, notice, errorShown, data, button, invoked>>
vars == <<op, df, number, events, pc, content, llmCalls, scored, ret, raised,
          coerceVars, appVars>>

----------------------------------------------------------------------------
(* Fixed-point numbers *)

ONE == 100 * 100

Abs(x) == IF x < 0 THEN -x ELSE x

\* x * 0.5, x * 0.3, x * 0.2, for x a multiple of 0.001
Times05(x) == (x * 5) \div 10
Times03(x) == (x * 3) \div 10
Times02(x) == (x * 2) \div 10

\* The multiples of 0.01 nearest to x.  Python's round(x, 2) rounds the
\* binary float; at an exact decimal tie the float may lie on either side,
\* so both neighbours are possible results.
Round2Set(x) ==
    LET lo == (x \div 100) * 100
        hi == lo + 100
    IN  IF x = lo THEN {lo}
        ELSE IF x - lo < hi - x THEN {lo}
        ELSE IF x - lo > hi - x THEN {hi}
        ELSE {lo, hi}

\* round(x, 2) where it is not a tie; at a tie, the even neighbour (the
\* result for a float that is exactly the decimal)
Round2(x) ==
    LET c == Round2Set(x)
        lo == (x \div 100) * 100
    IN  IF Cardinality(c) = 1 THEN CHOOSE r \in c : TRUE
        ELSE IF (lo \div 100) % 2 = 0 THEN lo ELSE lo + 100

----------------------------------------------------------------------------
(* Cell values: None, int, float, str *)

NoneV == [t |-> "none", v |-> 0, s |-> <<>>]
IntV(n) == [t |-> "int", v |-> n * ONE, s |-> <<>>]
FloatV(x) == [t |-> "float", v |-> x, s |-> <<>>]
StrV(str) == [t |-> "str", v |-> 0, s |-> str]
\* a Python int whose magnitude is beyond the largest float, such as 10**400
HugeIntV == [t |-> "hugeint", v |-> 0, s |-> <<>>]

Digits == <<"0", "1", "2", "3", "4", "5", "6", "7", "8", "9">>
DigitSet == {Digits[i] : i \in 1..Len(Digits)}
DigitVal(c) == (CHOOSE i \in 1..Len(Digits) : Digits[i] = c) - 1
Whitespace == {" "}

RECURSIVE lstrip(_)
lstrip(s) ==
    IF s # <<>> /\ Head(s) \in Whitespace THEN lstrip(Tail(s)) ELSE s

RECURSIVE rstrip(_)
rstrip(s) ==
    IF s # <<>> /\ s[Len(s)] \in Whitespace
    THEN rstrip(SubSeq(s, 1, Len(s) - 1)) ELSE s

\* str.strip()
strip(s) == rstrip(lstrip(s))

RECURSIVE NatDigits(_)
NatDigits(n) ==
    IF n < 10 THEN <<Digits[n + 1]>>
    ELSE NatDigits(n \div 10) \o <<Digits[(n % 10) + 1]>>

RECURSIVE FracDigits(_, _)
\* the decimals of f / scale, without trailing zeros (at least one digit)
FracDigits(f, scale) ==
    IF scale = 1 \/ (f = 0) THEN <<>>
    ELSE LET step == scale \div 10
         IN  <<Digits[(f \div step) + 1]>> \o FracDigits(f % step, step)

\* str(value) of a cell value
PyStr(value) ==
    CASE value.t = "str" -> value.s
      [] value.t = "none" -> <<"N", "o", "n", "e">>
      [] value.t = "int" ->
            (IF value.v < 0 THEN <<"-">> ELSE <<>>) \o NatDigits(Abs(value.v) \div ONE)
      [] value.t = "float" ->
            LET a == Abs(value.v)
                fr == FracDigits(a % ONE, ONE)
            IN  (IF value.v < 0 THEN <<"-">> ELSE <<>>)
                \o NatDigits(a \div ONE) \o <<".">>
                \o (IF fr = <<>> THEN <<"0">> ELSE fr)

RECURSIVE DigitsValue(_)
DigitsValue(s) ==
    IF s = <<>> THEN 0
    ELSE DigitsValue(SubSeq(s, 1, Len(s) - 1)) * 10 + DigitVal(s[Len(s)])

RECURSIVE FracValue(_, _)
\* value of the decimals s, the first of them worth scale / 10
FracValue(s, scale) ==
    IF s = <<>> \/ scale = 1 THEN 0
    ELSE DigitVal(Head(s)) * (scale \div 10) + FracValue(Tail(s), scale \div 10)

\* float(s) for a string of the alphabet sign, digit, point, space, letter:
\* [ok, v].  A ValueError is ok = FALSE.
ParseFloat(s) ==
    LET signed == s # <<>> /\ Head(s) \in {"+", "-"}
        body == IF signed THEN Tail(s) ELSE s
        points == {i \in 1..Len(body) : body[i] = "."}
        p == IF points = {} THEN Len(body) + 1
             ELSE CHOOSE i \in points : \A j \in points : i <= j
        ip == SubSeq(body, 1, p - 1)
        fp == SubSeq(body, p + 1, Len(body))
        wellformed ==
            /\ Cardinality(points) <= 1
            /\ \A i \in 1..Len(ip) : ip[i] \in DigitSet
            /\ \A i \in 1..Len(fp) : fp[i] \in DigitSet
            /\ Len(ip) + Len(fp) > 0
        mag == DigitsValue(ip) * ONE + FracValue(fp, ONE)
    IN  IF wellformed
        THEN [ok |-> TRUE, v |-> IF signed /\ Head(s) = "-" THEN -mag ELSE mag]
        ELSE [ok |-> FALSE, v |-> 0]

\* _safe_numeric(value, default)
_safe_numeric(value, default) ==
    IF value.t = "none" THEN default
    ELSE IF value.t \in {"int", "float"} THEN value.v
    ELSE LET parsed == ParseFloat(strip(PyStr(value)))
         IN  IF parsed.ok THEN parsed.v ELSE default

\* A call of _safe_numeric(value, default): the exception that escapes and
\* the value returned.  isinstance(value, (int, float)) holds of every int,
\* and float(value) of an int beyond the float range raises OverflowError,
\* on a line that no try encloses.
SafeNumericCall(v, d) ==
    IF v.t = "hugeint" THEN [raised |-> "OverflowError", ret |-> <<>>]
    ELSE [raised |-> "none", ret |-> _safe_numeric(v, d)]

----------------------------------------------------------------------------
(* Rows and tables *)

\* row.get(key, default) of a pandas Series
Get(row, key, default) == IF key \in DOMAIN row THEN row[key] ELSE default

\* Column names
UMABAN == "umaban"                          \* entrant number
BAMEI == "bamei"                            \* entrant name
SOGO_HYOKA == "sogo_hyoka"                  \* overall rating
KINSO_SHISU == "kinso_shisu"                \* recent-form index
SPEED_SHISU == "speed_shisu"                \* speed index
CHOKYO_HYOKA == "chokyo_hyoka"              \* training evaluation
JUSHO_JISSEKI == "jusho_jisseki"            \* graded-race record
NAKAYAMA_JISSEKI == "nakayama_jisseki"      \* venue record
SHIBA_TEKISEI == "shiba_tekisei"            \* turf aptitude
UMA_POTENTIAL == "uma_potential"            \* potential index
BARIKI_SHISU == "bariki_shisu"              \* alt power index
KISHU_HYOKA == "kishu_hyoka"                \* handler rating
KISHU_SHORITSU == "kishu_shoritsu"          \* handler win rate
NAKAYAMA_SHISU == "nakayama_jisseki_shisu"  \* venue-specific index
COURSE_TEKISEI == "course_tekisei"          \* course aptitude

\* the qualifying grade markers: double circle, circle, triangle, "A", "B"
QualifyingMarks == {<<"DCIRCLE">>, <<"CIRCLE">>, <<"TRIANGLE">>, <<"A">>, <<"B">>}

bonus_flags == <<JUSHO_JISSEKI, NAKAYAMA_JISSEKI, SHIBA_TEKISEI>>

\* Mutant: the flag value is not trimmed
BonusOfMut(row, flag) ==
    IF PyStr(Get(row, flag, StrV(<<>>))) \in QualifyingMarks
    THEN ONE + Times05(ONE) ELSE 0

BonusOf(row, flag) ==
    IF strip(PyStr(Get(row, flag, StrV(<<>>)))) \in QualifyingMarks
    THEN ONE + Times05(ONE) ELSE 0

RECURSIVE BonusSum(_, _)
BonusSum(row, i) ==
    IF i > Len(bonus_flags) THEN 0
    ELSE BonusOf(row, bonus_flags[i]) + BonusSum(row, i + 1)

\* _compute_base_score(row)
_compute_base_score(row) ==
    LET core_features == <<
            _safe_numeric(Get(row, SOGO_HYOKA, FloatV(0)), 0),
            _safe_numeric(Get(row, KINSO_SHISU, FloatV(0)), 0),
            _safe_numeric(Get(row, SPEED_SHISU, FloatV(0)), 0),
            Times05(_safe_numeric(Get(row, CHOKYO_HYOKA, FloatV(0)), 0)) >>
        score == core_features[1] + core_features[2] + core_features[3] + core_features[4]
    IN  score + BonusSum(row, 1)

----------------------------------------------------------------------------
(* Ranker and bet-plan formatter *)

\* The five labels: honmei, taiko, tan-ana, ana-uma, kiken-ba
PredictionRoles == <<"HONMEI", "TAIKO", "TANANA", "ANAUMA", "KIKENBA">>

\* the separator glyph (nakaguro) of the bet-plan tiers
SEP == "NAKAGURO"

Min(a, b) == IF a < b THEN a ELSE b

\* Mutant: empty only when both axes are empty
IsEmptyMut(table) == Len(table.rows) = 0 /\ table.columns = {}

\* df.empty: no rows or no columns
IsEmpty(table) == Len(table.rows) = 0 \/ table.columns = {}

\* scored["_score"] = scored.apply(_compute_base_score, axis=1)
ScoreColumn(table) ==
    SubSeq([i \in 1..Len(table.rows) |-> _compute_base_score(table.rows[i])],
           1, Len(table.rows))

\* Mutant: the entrant number does not break ties
Before2Mut(table, score, i, j) == score[i] > score[j]

\* The sort key of sort_values(["_score", "umaban"], ascending=[False, True]):
\* row i goes before row j
Before2(table, score, i, j) ==
    \/ score[i] > score[j]
    \/ /\ score[i] = score[j]
       /\ table.rows[i][UMABAN].v < table.rows[j][UMABAN].v

\* The sort key of sort_values(["_score"], ascending=False)
Before1(table, score, i, j) == score[i] > score[j]

RECURSIVE InsertSorted(_, _, _, _)
\* `order` with row i put before the first row that i goes before
InsertSorted(table, score, order, i) ==
    IF order = <<>> THEN <<i>>
    ELSE IF Before2(table, score, i, Head(order)) THEN <<i>> \o order
    ELSE <<Head(order)>> \o InsertSorted(table, score, Tail(order), i)

RECURSIVE StableSort(_, _, _)
\* the first k rows of the table in sorted order, ties in table order
StableSort(table, score, k) ==
    IF k = 0 THEN <<>>
    ELSE InsertSorted(table, score, StableSort(table, score, k - 1), k)

\* sort_values on two columns is a lexsort, which is stable
StableOrder(table, score) == StableSort(table, score, Len(table.rows))

RECURSIVE OrdersOf(_, _, _)
\* the orders of the rows `left` in which no row goes before an earlier one
OrdersOf(table, score, left) ==
    IF left = {} THEN {<<>>}
    ELSE UNION {{<<i>> \o rest : rest \in OrdersOf(table, score, left \ {i})} :
                   i \in {i \in left : \A j \in left : ~Before1(table, score, j, i)}}

\* sort_values on one column uses the default kind "quicksort", which is not
\* a stable sort: every order of the rows that is descending in the score
\* is a possible result
SingleColumnOrders(table, score) == OrdersOf(table, score, 1..Len(table.rows))

\* the orders scored.sort_values(...) can produce
SortedOrders(table) ==
    LET score == ScoreColumn(table)
    IN  IF UMABAN \in table.columns
        THEN {StableOrder(table, score)}
        ELSE SingleColumnOrders(table, score)

\* scored.head(count)
Head_(order, count) == SubSeq(order, 1, Min(count, Len(order)))

\* picks[label] = f"{label}: {name} (umaban {number})"
PickText(label, row) ==
    [label |-> label,
     name |-> PyStr(Get(row, BAMEI, StrV(<<"u", "n", "k", "n", "o", "w", "n">>))),
     number |-> PyStr(Get(row, UMABAN, StrV(<<"?">>)))]

\* the label mapping built by the zip over PredictionRoles and scored.head(5)
Picks(table, order) ==
    LET top == Head_(order, Len(PredictionRoles))
    IN  [label \in {PredictionRoles[k] : k \in 1..Len(top)} |->
            LET k == CHOOSE k \in 1..Len(top) : PredictionRoles[k] = label
            IN  PickText(label, table.rows[top[k]])]

RECURSIVE Join(_, _)
\* sep.join(strings)
Join(sep, strings) ==
    IF strings = <<>> THEN <<>>
    ELSE IF Len(strings) = 1 THEN strings[1]
    ELSE strings[1] \o <<sep>> \o Join(sep, Tail(strings))

\* Mutant: the slice takes one element too many
SliceMut(seq, k) == SubSeq(seq, 1, Min(k + 1, Len(seq)))

\* top_numbers[:k]
Slice(seq, k) == SubSeq(seq, 1, Min(k, Len(seq)))

\* the three tiers that buy_message embeds
BuyMessage(table, order) ==
    LET top == Head_(order, 3)
        top_numbers == [k \in 1..Len(top) |->
                           PyStr(Get(table.rows[top[k]], UMABAN, StrV(<<"?">>)))]
    IN  [kind |-> "formation",
         tier1 |-> Join(SEP, Slice(top_numbers, 1)),
         tier2 |-> Join(SEP, Slice(top_numbers, 2)),
         tier3 |-> Join(SEP, top_numbers)]

\* the fixed "data is empty" message
EmptyMessage == [kind |-> "empty", tier1 |-> <<>>, tier2 |-> <<>>, tier3 |-> <<>>]

EmptyPicks == [label \in {} |-> PickText(label, <<>>)]

\* build_prediction(df), for one outcome of the sort
build_prediction(table, order) ==
    IF IsEmpty(table)
    THEN [picks |-> EmptyPicks, buy |-> EmptyMessage, scored |-> <<>>]
    ELSE [picks |-> Picks(table, order), buy |-> BuyMessage(table, order),
          scored |-> order]

----------------------------------------------------------------------------
(* Single-entrant evaluator *)

\* df["umaban"] == number, for one cell: a numeric cell equal to the number
CellEquals(cell, n) == cell.t \in {"int", "float"} /\ cell.v = n * ONE

\* _extract_target_row(df, number): [found, row]
_extract_target_row(table, n) ==
    IF UMABAN \notin table.columns
    THEN [found |-> FALSE, row |-> <<>>]
    ELSE LET match == {i \in 1..Len(table.rows) : CellEquals(table.rows[i][UMABAN], n)}
         IN  IF match = {}
             THEN [found |-> FALSE, row |-> <<>>]
             ELSE [found |-> TRUE,
                   row |-> table.rows[CHOOSE i \in match : \A j \in match : i <= j]]

\* Comments are the template that was filled and the values put into it
Comment(tpl, a, b) == [tpl |-> tpl, a |-> a, b |-> b]
NotFoundComment == Comment("not_found", 0, 0)
EmptyComment == Comment("empty", 0, 0)
CheckDataSummary == Comment("check_data", 0, 0)

\* Mutant: the zero-filled evaluation does not carry the requested number
NotFoundEvaluationMut(n) ==
    [number |-> 0,
     horse_score |-> 0, jockey_score |-> 0, course_score |-> 0, overall_score |-> 0,
     horse_comment |-> NotFoundComment, jockey_comment |-> EmptyComment,
     course_comment |-> EmptyComment, summary |-> CheckDataSummary]

\* the zero-filled evaluation returned when the row is None
NotFoundEvaluation(n) ==
    [number |-> n,
     horse_score |-> 0, jockey_score |-> 0, course_score |-> 0, overall_score |-> 0,
     horse_comment |-> NotFoundComment, jockey_comment |-> EmptyComment,
     course_comment |-> EmptyComment, summary |-> CheckDataSummary]

NA == StrV(<<"N", "/", "A">>)

\* Mutant: the power index is the default of the coercion, not of the lookup
HorseScoreMut(row) ==
    _safe_numeric(Get(row, UMA_POTENTIAL, NoneV),
                  _safe_numeric(Get(row, BARIKI_SHISU, FloatV(0)), 0))
    + _safe_numeric(Get(row, CHOKYO_HYOKA, FloatV(0)), 0)

\* horse_score = _safe_numeric(row.get(potential, row.get(power, 0.0)))
\*               + _safe_numeric(row.get(training, 0.0))
HorseScore(row) ==
    _safe_numeric(Get(row, UMA_POTENTIAL, Get(row, BARIKI_SHISU, FloatV(0))), 0)
    + _safe_numeric(Get(row, CHOKYO_HYOKA, FloatV(0)), 0)

\* jockey_score = _safe_numeric(row.get(rating, 0.0)) + _safe_numeric(row.get(win rate, 0.0))
JockeyScore(row) ==
    _safe_numeric(Get(row, KISHU_HYOKA, FloatV(0)), 0)
    + _safe_numeric(Get(row, KISHU_SHORITSU, FloatV(0)), 0)

\* course_score = _safe_numeric(row.get(venue index, row.get(course aptitude, 0.0)))
CourseScore(row) ==
    _safe_numeric(Get(row, NAKAYAMA_SHISU, Get(row, COURSE_TEKISEI, FloatV(0))), 0)

\* Mutant: the overall score is blended from the rounded sub-scores
OverallRawMut(horse_score, jockey_score, course_score) ==
    Times05(Round2(horse_score)) + Times03(Round2(jockey_score))
    + Times02(Round2(course_score))

\* the argument of round(..., 2) in overall_score
OverallRaw(horse_score, jockey_score, course_score) ==
    Times05(horse_score) + Times03(jockey_score) + Times02(course_score)

\* evaluate_single(df, number): the records it can return (one for each way
\* the four round(..., 2) calls can fall at a tie)
evaluate_single(table, n) ==
    LET target == _extract_target_row(table, n)
        row == target.row
        horse_score == HorseScore(row)
        jockey_score == JockeyScore(row)
        course_score == CourseScore(row)
    IN  IF ~target.found
        THEN {NotFoundEvaluation(n)}
        ELSE {[number |-> n,
               horse_score |-> h, jockey_score |-> j, course_score |-> c,
               overall_score |-> o,
               horse_comment |-> Comment("horse",
                    _safe_numeric(Get(row, UMA_POTENTIAL, NA), 0),
                    _safe_numeric(Get(row, CHOKYO_HYOKA, NA), 0)),
               jockey_comment |-> Comment("jockey",
                    _safe_numeric(Get(row, KISHU_HYOKA, NA), 0),
                    _safe_numeric(Get(row, KISHU_SHORITSU, NA), 0)),
               course_comment |-> Comment("course",
                    _safe_numeric(Get(row, COURSE_TEKISEI, NA), 0),
                    _safe_numeric(Get(row, NAKAYAMA_SHISU, NA), 0)),
               summary |-> Comment("summary", o, 0)] :
                    h \in Round2Set(horse_score), j \in Round2Set(jockey_score),
                    c \in Round2Set(course_score),
                    o \in Round2Set(OverallRaw(horse_score, jockey_score, course_score))}

----------------------------------------------------------------------------
(* Numerology plan builder *)

\* events=None
NoneEvents == [none |-> TRUE, list |-> <<>>]
SomeEvents(list) == [none |-> FALSE, list |-> list]

Event(title, numbers) == [title |-> title, numbers |-> numbers]

\* the built-in list of four events
default_events == <<
    Event("hanshin_awaji_30", <<1, 7, 30>>),
    Event("elizabeth_99", <<9, 9, 12>>),
    Event("hanshin_yusho", <<6, 18>>),
    Event("tokyo_olympic_4", <<2, 4, 20>>) >>

\* event_list = events or default_events: None and the empty list are falsy
EventList(ev) ==
    IF ev.none \/ ev.list = <<>> THEN default_events ELSE ev.list

\* the comma-space separator of ", ".join
COMMA == "COMMA_SPACE"

\* str(n) of an int
IntStr(n) == (IF n < 0 THEN <<"-">> ELSE <<>>) \o NatDigits(Abs(n))

\* the step string of one event: its title and ", ".join(map(str, numbers))
StepText(e) ==
    [title |-> e.title,
     numbers |-> Join(COMMA, [i \in 1..Len(e.numbers) |-> IntStr(e.numbers[i])])]

RECURSIVE Extend(_, _)
\* highlighted_numbers after the loop over event_list from event i on
Extend(event_list, i) ==
    IF i > Len(event_list) THEN <<>>
    ELSE event_list[i].numbers \o Extend(event_list, i + 1)

RECURSIVE SortedSeq(_)
\* sorted(set)
SortedSeq(set) ==
    IF set = {} THEN <<>>
    ELSE LET m == CHOOSE x \in set : \A y \in set : x <= y
         IN  <<m>> \o SortedSeq(set \ {m})

\* Mutant: the upper end of the range is left out
UniqueNumbersMut(highlighted_numbers) ==
    SortedSeq({highlighted_numbers[i] : i \in
                 {k \in 1..Len(highlighted_numbers) :
                     1 <= highlighted_numbers[k] /\ highlighted_numbers[k] < 18}})

\* unique_numbers = sorted({n for n in highlighted_numbers if 1 <= n <= 18})
UniqueNumbers(highlighted_numbers) ==
    SortedSeq({highlighted_numbers[i] : i \in
                 {k \in 1..Len(highlighted_numbers) :
                     1 <= highlighted_numbers[k] /\ highlighted_numbers[k] <= 18}})

\* [(a, b) for b in unique_numbers if a < b], for one a
PairsOf(unique_numbers, a) ==
    LET Greater(b) == a < b
        bs == SelectSeq(unique_numbers, Greater)
    IN  SubSeq([k \in 1..Len(bs) |-> <<a, bs[k]>>], 1, Len(bs))

RECURSIVE PairLoop(_, _)
\* [(a, b) for a in unique_numbers for b in unique_numbers if a < b], from
\* the a of index i on
PairLoop(unique_numbers, i) ==
    IF i > Len(unique_numbers) THEN <<>>
    ELSE PairsOf(unique_numbers, unique_numbers[i]) \o PairLoop(unique_numbers, i + 1)

\* the slice [:10]
PairLimit == 10

\* pairings, before formatting
Pairings(unique_numbers) ==
    LET all == PairLoop(unique_numbers, 1)
    IN  SubSeq(all, 1, Min(PairLimit, Len(all)))

\* f"{a}-{b}"
PairText(pair) == IntStr(pair[1]) \o <<"-">> \o IntStr(pair[2])

\* build_sign_theory_plan(events)
build_sign_theory_plan(ev) ==
    LET event_list == EventList(ev)
        unique_numbers == UniqueNumbers(Extend(event_list, 1))
        pairings == Pairings(unique_numbers)
    IN  [steps |-> [i \in 1..Len(event_list) |-> StepText(event_list[i])],
         unique_numbers |-> unique_numbers,
         pairings |-> pairings,
         plan |-> [numbers |-> Join(COMMA, [i \in 1..Len(unique_numbers) |->
                                               IntStr(unique_numbers[i])]),
                   pairs |-> Join(COMMA, [i \in 1..Len(pairings) |->
                                               PairText(pairings[i])])]]

----------------------------------------------------------------------------
(* Narrative overlay: the generator-backed entry points *)

\* JSON values, as json.loads returns them
JNull == [j |-> "null", v |-> 0, s |-> <<>>, keys |-> {}, items |-> <<>>]
JBool(b) == [j |-> "bool", v |-> IF b THEN 1 ELSE 0, s |-> <<>>, keys |-> {}, items |-> <<>>]
JNum(x) == [j |-> "number", v |-> x, s |-> <<>>, keys |-> {}, items |-> <<>>]
JStr(str) == [j |-> "string", v |-> 0, s |-> str, keys |-> {}, items |-> <<>>]
JList(items) == [j |-> "list", v |-> 0, s |-> <<>>, keys |-> {}, items |-> items]
\* an object: its keys, and items[key] the value of each
JObj(fields) == [j |-> "dict", v |-> 0, s |-> <<>>, keys |-> DOMAIN fields, items |-> fields]

\* the collaborator's reply: text that is JSON (and its value) or is not
Reply(wellformed, value) == [called |-> TRUE, wellformed |-> wellformed, value |-> value]
NoContent == [called |-> FALSE, wellformed |-> FALSE, value |-> JNull]

\* parsed.get(key, default) of a dict
JGet(parsed, key, default) ==
    IF key \in parsed.keys THEN parsed.items[key] ELSE default

\* bool(value): the falsy values are None, False, 0, "", [] and {}
Truthy(value) ==
    CASE value.j = "null" -> FALSE
      [] value.j = "bool" -> value.v = 1
      [] value.j = "number" -> value.v # 0
      [] value.j = "string" -> value.s # <<>>
      [] value.j = "list" -> value.items # <<>>
      [] value.j = "dict" -> value.keys # {}

\* Messages of the overlay: a fixed text, the reply wrapped with a prefix,
\* or a value taken from the parsed reply
FixedText(name) == [kind |-> name, value |-> JNull]
FromReply(value) == [kind |-> "from_reply", value |-> value]
WrappedReply == FixedText("json_failed_prefix_and_content")

\* build_prediction_with_llm(df, client), given the collaborator's reply:
\* [picks, buy, calls, raised]
build_prediction_with_llm(table, reply) ==
    IF IsEmpty(table)
    THEN [picks |-> EmptyPicks, buy |-> EmptyMessage, calls |-> 0, raised |-> "none"]
    ELSE IF ~reply.wellformed
    THEN \* except json.JSONDecodeError
         [picks |-> EmptyPicks, buy |-> WrappedReply, calls |-> 1, raised |-> "none"]
    ELSE LET parsed == reply.value
             isdict == parsed.j = "dict"
             labels == {PredictionRoles[k] : k \in 1..Len(PredictionRoles)}
             taken == IF isdict
                      THEN {l \in labels : JGet(parsed, l, JNull).j = "string"}
                      ELSE {}
             buy_message == IF isdict THEN JGet(parsed, "buy_plan", JStr(<<>>))
                            ELSE JStr(<<>>)
         IN  [picks |-> [l \in taken |-> JGet(parsed, l, JNull).s],
              buy |-> IF Truthy(buy_message) THEN FromReply(buy_message)
                      ELSE FixedText("could_not_generate_formation"),
              calls |-> 1, raised |-> "none"]

\* float(value) of a JSON value: [raised, v]
PyFloat(value) ==
    CASE value.j \in {"number", "bool"} ->
            [raised |-> "none", v |-> IF value.j = "bool" THEN value.v * ONE ELSE value.v]
      [] value.j = "string" ->
            LET parsed == ParseFloat(strip(value.s))
            IN  IF parsed.ok THEN [raised |-> "none", v |-> parsed.v]
                ELSE [raised |-> "ValueError", v |-> 0]
      [] OTHER -> [raised |-> "TypeError", v |-> 0]

\* evaluate_single_with_llm(df, number, client), given the collaborator's
\* reply: the outcomes [ret, calls, raised] it can have
evaluate_single_with_llm(table, n, reply) ==
    LET target == _extract_target_row(table, n)
        row == target.row
        Record(hc, jc, cc, sm, o) ==
            [number |-> n,
             horse_score |-> _safe_numeric(Get(row, UMA_POTENTIAL, FloatV(0)), 0),
             jockey_score |-> _safe_numeric(Get(row, KISHU_HYOKA, FloatV(0)), 0),
             course_score |-> _safe_numeric(
                 Get(row, COURSE_TEKISEI, Get(row, NAKAYAMA_SHISU, FloatV(0))), 0),
             overall_score |-> o,
             horse_comment |-> hc, jockey_comment |-> jc,
             course_comment |-> cc, summary |-> sm]
        Raise(e) == [ret |-> <<>>, calls |-> 1, raised |-> e]
    IN  IF ~target.found
        THEN {[ret |-> NotFoundEvaluation(n), calls |-> 0, raised |-> "none"]}
        ELSE IF ~reply.wellformed
        THEN \* except json.JSONDecodeError
             {[ret |-> Record(Comment("reply_text", 0, 0), EmptyComment, EmptyComment,
                              Comment("json_failed", 0, 0), 0),
               calls |-> 1, raised |-> "none"]}
        ELSE LET parsed == reply.value
             IN  IF parsed.j # "dict"
                 THEN \* parsed.get: no such attribute on a list, number, string or None
                      {Raise("AttributeError")}
                 ELSE LET f == PyFloat(JGet(parsed, "overall_score", JNum(0)))
                      IN  IF f.raised # "none"
                          THEN {Raise(f.raised)}
                          ELSE {[ret |-> Record(
                                    Comment("str", JGet(parsed, "horse_comment", JStr(<<>>)), 0),
                                    Comment("str", JGet(parsed, "jockey_comment", JStr(<<>>)), 0),
                                    Comment("str", JGet(parsed, "course_comment", JStr(<<>>)), 0),
                                    Comment("str", JGet(parsed, "summary", JStr(<<>>)), 0),
                                    o),
                                  calls |-> 1, raised |-> "none"] :
                                      o \in Round2Set(f.v)}

\* build_sign_theory_plan_with_llm(client), given the collaborator's reply:
\* [steps, plan, calls, raised]
build_sign_theory_plan_with_llm(reply) ==
    IF ~reply.wellformed
    THEN \* except json.JSONDecodeError
         [steps |-> <<FixedText("json_failed"), FixedText("content")>>,
          plan |-> FixedText("could_not_generate_plan"), calls |-> 1, raised |-> "none"]
    ELSE LET parsed == reply.value
             isdict == parsed.j = "dict"
             got == IF isdict THEN JGet(parsed, "events", JNull) ELSE JNull
             raw_events == IF Truthy(got) THEN got ELSE JList(<<>>)
             plan == IF isdict THEN JGet(parsed, "plan", JStr(<<>>)) ELSE JStr(<<>>)
             \* str(x) is "" only for the empty string
             planText == IF isdict THEN FromReply(plan) ELSE FixedText("")
             planTruthy == isdict /\ ~(plan.j = "string" /\ plan.s = <<>>)
         IN  [steps |-> IF isdict /\ raw_events.j = "list"
                        THEN [i \in 1..Len(raw_events.items) |-> FromReply(raw_events.items[i])]
                        ELSE <<>>,
              plan |-> IF planTruthy THEN planText ELSE FixedText("could_not_generate_plan"),
              calls |-> 1, raised |-> "none"]

----------------------------------------------------------------------------
(* Inputs *)

MaxRows == 6          \* rows of a table that has the entrant-number column
MaxUnkeyedRows == 4   \* rows of a table that has no entrant-number column
MaxNumber == 3        \* the entrant numbers asked for are 1..MaxNumber
MaxEvents == 3        \* events of a supplied events list
MaxText == 3          \* characters of a text handed to _safe_numeric

\* marks a column that the table does not have
Absent == [t |-> "absent", v |-> 0, s |-> <<>>]

\* the row holding the cells of `cells` that are not Absent
MakeRow(cells) == [c \in {c \in DOMAIN cells : cells[c] # Absent} |-> cells[c]]

Table(columns, rows) == [columns |-> columns, rows |-> rows]
NoTable == Table({}, <<>>)

\* Rows for the feature scorer: every kind of cell in the rated columns
ScoreCells ==
    [sogo_hyoka : {Absent, NoneV, IntV(7), StrV(<<" ", "3", ".", "5", " ">>),
                   StrV(<<"a", "b", "c">>)},
     kinso_shisu : {Absent, FloatV(ONE + 5000), StrV(<<>>)},
     speed_shisu : {Absent, StrV(<<"-", "2">>)},
     chokyo_hyoka : {Absent, FloatV(ONE), StrV(<<"1", ".", "2", ".", "3">>)},
     jusho_jisseki : {Absent, StrV(<<" ", "A", " ">>), StrV(<<"C">>), IntV(1)},
     nakayama_jisseki : {Absent, StrV(<<"DCIRCLE">>), NoneV},
     shiba_tekisei : {Absent, StrV(<<"B">>), StrV(<<"A", "B">>)}]

ScoreTables == {Table(DOMAIN MakeRow(c), <<MakeRow(c)>>) : c \in ScoreCells}

\* Rows for the ranker: an entrant number and a rating worth 1.0 or 2.0;
\* the name of a row tells its place in the table
RankNumbers == {1, 2}
RankRatings == {IntV(1), StrV(<<" ", "2">>)}
RowName(i) == StrV(<<"h">> \o NatDigits(i))

\* the table with the entrant-number column whose row i has the number and
\* rating f[i]
KeyedTable(n, f) ==
    Table({UMABAN, BAMEI, SOGO_HYOKA},
          SubSeq([i \in 1..n |-> [umaban |-> IntV(f[i][1]), bamei |-> RowName(i),
                                  sogo_hyoka |-> f[i][2]]], 1, n))

\* the table without the entrant-number column whose row i has the rating f[i]
UnkeyedTable(n, f) ==
    Table({BAMEI, SOGO_HYOKA},
          SubSeq([i \in 1..n |-> [bamei |-> RowName(i), sogo_hyoka |-> f[i]]], 1, n))

\* the table with only the rating column
BareTable(n, f) ==
    Table({SOGO_HYOKA}, SubSeq([i \in 1..n |-> [sogo_hyoka |-> f[i]]], 1, n))

\* the table with n rows and no column
NoColumnTable(n) == Table({}, SubSeq([i \in 1..n |-> <<>>], 1, n))

\* df is a table without the entrant-number column
UnkeyedInput ==
    \/ \E n \in 0..MaxUnkeyedRows : \E f \in [1..n -> RankRatings] :
          df = UnkeyedTable(n, f)
    \/ \E n \in 1..MaxUnkeyedRows : \E f \in [1..n -> RankRatings] :
          df = BareTable(n, f)
    \/ \E n \in 1..MaxUnkeyedRows : df = NoColumnTable(n)

\* df is a table for the ranker
RankInput ==
    \/ \E n \in 0..MaxRows : \E f \in [1..n -> RankNumbers \X RankRatings] :
          df = KeyedTable(n, f)
    \/ UnkeyedInput

\* Rows for the evaluator: every kind of cell in the evaluated columns
EvalCells ==
    [umaban : {Absent, IntV(1), IntV(2)},
     uma_potential : {Absent, NoneV, FloatV(140), StrV(<<"a", "b", "c">>)},
     bariki_shisu : {Absent, FloatV(2 * ONE)},
     chokyo_hyoka : {Absent, StrV(<<" ", "0", ".", "5", " ">>)},
     kishu_hyoka : {Absent, FloatV(340)},
     kishu_shoritsu : {Absent, IntV(1)},
     nakayama_jisseki_shisu : {Absent, StrV(<<>>), FloatV(ONE + 50)},
     course_tekisei : {Absent, FloatV(3 * ONE)}]

\* a second row with the same columns, the entrant number d and 9 elsewhere
Decoy(row, d) == [c \in DOMAIN row |-> IF c = UMABAN THEN IntV(d) ELSE IntV(9)]

EvalTables ==
    {NoTable}
    \cup {Table(DOMAIN MakeRow(c), <<MakeRow(c)>>) : c \in EvalCells}
    \cup {Table(DOMAIN MakeRow(c), <<Decoy(MakeRow(c), d), MakeRow(c)>>) :
              c \in EvalCells, d \in {1, 2}}
    \cup {Table(DOMAIN MakeRow(c), <<MakeRow(c), Decoy(MakeRow(c), d)>>) :
              c \in EvalCells, d \in {1, 2}}

\* Tables for the overlay
OverlayTables ==
    {NoTable,
     Table({SOGO_HYOKA}, <<[sogo_hyoka |-> IntV(1)]>>),
     Table({UMABAN, UMA_POTENTIAL, COURSE_TEKISEI, NAKAYAMA_SHISU},
           <<[umaban |-> IntV(1), uma_potential |-> FloatV(ONE),
              course_tekisei |-> FloatV(3 * ONE),
              nakayama_jisseki_shisu |-> FloatV(2 * ONE)]>>),
     Table({UMABAN, KISHU_HYOKA},
           <<[umaban |-> IntV(2), kishu_hyoka |-> StrV(<<"4">>)],
             [umaban |-> IntV(1), kishu_hyoka |-> NoneV]>>)}

\* Replies of the collaborator: text that is not JSON, JSON of the wrong
\* type, and objects with and without the expected keys
Text(name) == JStr(<<name>>)
Replies ==
    {Reply(FALSE, JNull),
     Reply(TRUE, JList(<<JNum(ONE), JNum(2 * ONE)>>)),
     Reply(TRUE, JNum(3 * ONE)),
     Reply(TRUE, Text("free text")),
     Reply(TRUE, JNull),
     Reply(TRUE, JBool(TRUE)),
     Reply(TRUE, JObj(<<>>)),
     Reply(TRUE, JObj([HONMEI |-> Text("pick 1"), TAIKO |-> JNum(2 * ONE),
                       buy_plan |-> Text("plan")])),
     Reply(TRUE, JObj([HONMEI |-> Text("pick 1"), buy_plan |-> JList(<<>>)])),
     Reply(TRUE, JObj([horse_comment |-> Text("good"), summary |-> Text("fine"),
                       overall_score |-> JNum(85 * ONE + 5550)])),
     Reply(TRUE, JObj([horse_comment |-> JNull,
                       overall_score |-> JStr(<<" ", "8", "5", " ">>)])),
     Reply(TRUE, JObj([summary |-> Text("fine"), overall_score |-> Text("high")])),
     Reply(TRUE, JObj([summary |-> Text("fine"), overall_score |-> JNull])),
     Reply(TRUE, JObj([summary |-> Text("fine"), overall_score |-> JList(<<>>)])),
     Reply(TRUE, JObj([events |-> JList(<<Text("event 1"), JNum(ONE)>>),
                       plan |-> Text("plan")])),
     Reply(TRUE, JObj([events |-> Text("event 1"), plan |-> JStr(<<>>)])),
     Reply(TRUE, JObj([events |-> JNull, plan |-> JNum(0)]))}

\* Digit lists of supplied events: in and out of 1..18, repeated, unsorted
DigitLists ==
    {<<>>, <<1, 7, 30>>, <<9, 9, 12>>, <<18, 6>>, <<0, 19, 3>>, <<5, 4, 2>>,
     <<17, 16, 15>>}

EventLists ==
    UNION {{[i \in 1..n |-> Event("event", f[i])] : f \in [1..n -> DigitLists]} :
              n \in 0..MaxEvents}

\* Arguments of _safe_numeric: None, ints, floats, an int beyond the float
\* range, and every text of up to MaxText characters of CoerceAlphabet
CoerceAlphabet == {" ", "3", "5", ".", "-", "a"}

CoerceTexts ==
    UNION {[1..n -> CoerceAlphabet] : n \in 0..MaxText}

CoerceValues ==
    {NoneV, IntV(7), IntV(0), IntV(-2), FloatV(35000), FloatV(-ONE - 2500), HugeIntV}
    \cup {StrV(t) : t \in CoerceTexts}

CoerceDefaults == {0, -ONE, 25000}

----------------------------------------------------------------------------
(* Specifications *)

\* no call of a utility function has been made
UtilIdle ==
    /\ pc = "call"
    /\ content = NoContent
    /\ llmCalls = 0
    /\ scored = <<>>
    /\ ret = <<>>
    /\ raised = "none"

\* _safe_numeric is not the entry point
CoerceIdle == coerceValue = NoneV /\ coerceDefault = 0

\* the app script is not running
AppIdle ==
    /\ secrets = "absent"
    /\ api_key = "None"
    /\ client = "None"
    /\ notice = "none"
    /\ errorShown = FALSE
    /\ data = "None"
    /\ button = "none"
    /\ invoked = "none"

Idle == UtilIdle /\ CoerceIdle /\ AppIdle

InitCoerce ==
    /\ op = "_safe_numeric"
    /\ coerceValue \in CoerceValues
    /\ coerceDefault \in CoerceDefaults
    /\ df = NoTable
    /\ number = 0
    /\ events = NoneEvents
    /\ UtilIdle /\ AppIdle

InitScore ==
    /\ op = "_compute_base_score"
    /\ df \in ScoreTables
    /\ number = 0
    /\ events = NoneEvents
    /\ Idle

InitRank ==
    /\ \/ op = "build_prediction" /\ RankInput
       \/ op = "build_prediction_with_llm" /\ UnkeyedInput
    /\ number = 0
    /\ events = NoneEvents
    /\ Idle

InitEval ==
    /\ op = "evaluate_single"
    /\ df \in EvalTables
    /\ number \in 1..MaxNumber
    /\ events = NoneEvents
    /\ Idle

InitSign ==
    /\ op = "build_sign_theory_plan"
    /\ df = NoTable
    /\ number = 0
    /\ events \in {NoneEvents} \cup {SomeEvents(l) : l \in EventLists}
    /\ Idle

InitOverlay ==
    /\ \/ op = "build_prediction_with_llm" /\ df \in OverlayTables /\ number = 0
       \/ op = "evaluate_single_with_llm" /\ df \in OverlayTables
            /\ number \in 1..MaxNumber
       \/ op = "build_sign_theory_plan_with_llm" /\ df = NoTable /\ number = 0
    /\ events = NoneEvents
    /\ Idle

\* _safe_numeric(value, default)
SafeNumeric ==
    /\ pc = "call" /\ op = "_safe_numeric"
    /\ LET r == SafeNumericCall(coerceValue, coerceDefault)
       IN  ret' = r.ret /\ raised' = r.raised
    /\ pc' = "done"
    /\ UNCHANGED <<op, df, number, events, content, llmCalls, scored>>
    /\ UNCHANGED <<coerceVars, appVars>>

\* _compute_base_score(row) on the row of the table
ComputeBaseScore ==
    /\ pc = "call" /\ op = "_compute_base_score"
    /\ ret' = _compute_base_score(df.rows[1])
    /\ pc' = "done"
    /\ UNCHANGED <<op, df, number, events, content, llmCalls, scored, raised>>
    /\ UNCHANGED <<coerceVars, appVars>>

\* build_prediction(df)
BuildPrediction ==
    /\ pc = "call" /\ op = "build_prediction"
    /\ \E order \in (IF IsEmpty(df) THEN {<<>>} ELSE SortedOrders(df)) :
          LET r == build_prediction(df, order)
          IN  /\ ret' = [picks |-> r.picks, buy |-> r.buy]
              /\ scored' = r.scored
    /\ pc' = "done"
    /\ UNCHANGED <<op, df, number, events, content, llmCalls, raised>>
    /\ UNCHANGED <<coerceVars, appVars>>

\* build_prediction_with_llm(df, client)
BuildPredictionWithLlm ==
    /\ pc = "call" /\ op = "build_prediction_with_llm"
    /\ \E reply \in Replies :
          LET r == build_prediction_with_llm(df, reply)
          IN  /\ ret' = [picks |-> r.picks, buy |-> r.buy]
              /\ llmCalls' = r.calls
              /\ content' = IF r.calls > 0 THEN reply ELSE NoContent
              /\ raised' = r.raised
    /\ pc' = "done"
    /\ UNCHANGED <<op, df, number, events, scored>>
    /\ UNCHANGED <<coerceVars, appVars>>

\* evaluate_single(df, number)
EvaluateSingle ==
    /\ pc = "call" /\ op = "evaluate_single"
    /\ ret' \in evaluate_single(df, number)
    /\ pc' = "done"
    /\ UNCHANGED <<op, df, number, events, content, llmCalls, scored, raised>>
    /\ UNCHANGED <<coerceVars, appVars>>

\* evaluate_single_with_llm(df, number, client)
EvaluateSingleWithLlm ==
    /\ pc = "call" /\ op = "evaluate_single_with_llm"
    /\ \E reply \in Replies :
          \E r \in evaluate_single_with_llm(df, number, reply) :
              /\ ret' = r.ret
              /\ llmCalls' = r.calls
              /\ content' = IF r.calls > 0 THEN reply ELSE NoContent
              /\ raised' = r.raised
    /\ pc' = "done"
    /\ UNCHANGED <<op, df, number, events, scored>>
    /\ UNCHANGED <<coerceVars, appVars>>

\* build_sign_theory_plan(events)
BuildSignTheoryPlan ==
    /\ pc = "call" /\ op = "build_sign_theory_plan"
    /\ ret' = build_sign_theory_plan(events)
    /\ pc' = "done"
    /\ UNCHANGED <<op, df, number, events, content, llmCalls, scored, raised>>
    /\ UNCHANGED <<coerceVars, appVars>>

\* build_sign_theory_plan_with_llm(client)
BuildSignTheoryPlanWithLlm ==
    /\ pc = "call" /\ op = "build_sign_theory_plan_with_llm"
    /\ \E reply \in Replies :
          LET r == build_sign_theory_plan_with_llm(reply)
          IN  /\ ret' = [steps |-> r.steps, plan |-> r.plan]
              /\ llmCalls' = r.calls
              /\ content' = reply
              /\ raised' = r.raised
    /\ pc' = "done"
    /\ UNCHANGED <<op, df, number, events, scored>>
    /\ UNCHANGED <<coerceVars, appVars>>

NextCoerce == SafeNumeric
NextScore == ComputeBaseScore
NextRank == BuildPrediction \/ BuildPredictionWithLlm
NextEval == EvaluateSingle
NextSign == BuildSignTheoryPlan
NextOverlay ==
    BuildPredictionWithLlm \/ EvaluateSingleWithLlm \/ BuildSignTheoryPlanWithLlm

SpecCoerce == InitCoerce /\ [][NextCoerce]_vars
SpecScore == InitScore /\ [][NextScore]_vars
SpecRank == InitRank /\ [][NextRank]_vars
SpecEval == InitEval /\ [][NextEval]_vars
SpecSign == InitSign /\ [][NextSign]_vars
SpecOverlay == InitOverlay /\ [][NextOverlay]_vars

----------------------------------------------------------------------------
(* The bundled app (src/bundle/app.py): one run of the script after another *)

\* st.secrets.get("OPENAI_API_KEY"): no entry gives None, else the entry
SecretsGet(entry) == IF entry = "absent" THEN "None" ELSE entry

\* the entries st.secrets can hold for OPENAI_API_KEY: none, "" or a key
SecretEntries == {"absent", "", "key"}

\* truth value of api_key: None and "" are falsy
HasKey(key) == key \notin {"None", ""}

\* the button whose press started this run of the script: at most one
Buttons == {"none", "tab1", "tab2", "tab3"}

\* require_data(data)
require_data(d) == d # "None" /\ d # "empty"

\* the script is at its first line and has set nothing yet
ScriptStart ==
    /\ pc = "secrets"
    /\ api_key = "None"
    /\ client = "None"
    /\ notice = "none"
    /\ errorShown = FALSE
    /\ data = "None"
    /\ invoked = "none"

InitApp ==
    /\ op = "app"
    /\ secrets \in SecretEntries
    /\ button \in Buttons
    /\ ScriptStart
    /\ df = NoTable /\ number = 0 /\ events = NoneEvents
    /\ content = NoContent /\ llmCalls = 0 /\ scored = <<>>
    /\ ret = <<>> /\ raised = "none"
    /\ CoerceIdle

\* what no step of the script changes
AppFrame ==
    UNCHANGED <<op, df, number, events, content, llmCalls, scored, ret, raised,
                coerceVars, secrets, button>>

\* api_key = st.secrets.get("OPENAI_API_KEY"); client = None
ReadSecrets ==
    /\ op = "app" /\ pc = "secrets"
    /\ api_key' = SecretsGet(secrets)
    /\ client' = "None"
    /\ pc' = "client"
    /\ UNCHANGED <<notice, errorShown, data, invoked>>
    /\ AppFrame

\* if api_key: try: client = OpenAI(api_key=api_key); except Exception:
\* st.error(...).  The import or the constructor may raise.
MakeClient ==
    /\ op = "app" /\ pc = "client"
    /\ IF HasKey(api_key)
       THEN \/ client' = "OpenAI" /\ UNCHANGED errorShown
            \/ client' = "None" /\ errorShown' = TRUE
       ELSE UNCHANGED <<client, errorShown>>
    /\ pc' = "data"
    /\ UNCHANGED <<api_key, notice, data, invoked>>
    /\ AppFrame

\* data = None; an upload or the sample gives a frame, empty when loading
\* failed
LoadData ==
    /\ op = "app" /\ pc = "data"
    /\ data' \in {"None", "empty", "loaded"}
    /\ pc' = "notice"
    /\ UNCHANGED <<api_key, client, notice, errorShown, invoked>>
    /\ AppFrame

\* if not api_key: st.warning(fallback) else: st.info(LLM mode)
ShowNotice ==
    /\ op = "app" /\ pc = "notice"
    /\ notice' = IF ~HasKey(api_key) THEN "warning" ELSE "info"
    /\ pc' = "tab1"
    /\ UNCHANGED <<api_key, client, errorShown, data, invoked>>
    /\ AppFrame

\* tab1: the prediction button
Tab1 ==
    /\ op = "app" /\ pc = "tab1"
    /\ invoked' = IF button = "tab1" /\ require_data(data)
                  THEN IF client # "None" THEN "build_prediction_with_llm"
                       ELSE "build_prediction"
                  ELSE invoked
    /\ pc' = "tab2"
    /\ UNCHANGED <<api_key, client, notice, errorShown, data>>
    /\ AppFrame

\* tab2: the evaluation button
Tab2 ==
    /\ op = "app" /\ pc = "tab2"
    /\ invoked' = IF button = "tab2" /\ require_data(data)
                  THEN IF client # "None" THEN "evaluate_single_with_llm"
                       ELSE "evaluate_single"
                  ELSE invoked
    /\ pc' = "tab3"
    /\ UNCHANGED <<api_key, client, notice, errorShown, data>>
    /\ AppFrame

\* tab3: the numerology button, which needs no data
Tab3 ==
    /\ op = "app" /\ pc = "tab3"
    /\ invoked' = IF button = "tab3"
                  THEN IF client # "None" THEN "build_sign_theory_plan_with_llm"
                       ELSE "build_sign_theory_plan"
                  ELSE invoked
    /\ pc' = "done"
    /\ UNCHANGED <<api_key, client, notice, errorShown, data>>
    /\ AppFrame

\* the next interaction runs the script again from its first line
Rerun ==
    /\ op = "app" /\ pc = "done"
    /\ button' \in Buttons
    /\ pc' = "secrets"
    /\ api_key' = "None"
    /\ client' = "None"
    /\ notice' = "none"
    /\ errorShown' = FALSE
    /\ data' = "None"
    /\ invoked' = "none"
    /\ UNCHANGED <<op, df, number, events, content, llmCalls, scored, ret, raised,
                   coerceVars, secrets>>

NextApp ==
    \/ ReadSecrets \/ MakeClient \/ LoadData \/ ShowNotice
    \/ Tab1 \/ Tab2 \/ Tab3 \/ Rerun

SpecApp == InitApp /\ [][NextApp]_vars

----------------------------------------------------------------------------
(* Claims about the ranker (SpecRank) *)

RankDone == pc = "done" /\ op = "build_prediction" /\ ~(Len(df.rows) = 0 \/ df.columns = {})

\* the entrant number of row i of the table
RowNumber(i) == df.rows[i][UMABAN].v

\* row i is ahead of row j in 'base score descending, then entrant number
\* ascending', for the base scores `score` of the rows
Ahead(score, i, j) ==
    \/ score[i] > score[j]
    \/ score[i] = score[j] /\ RowNumber(i) < RowNumber(j)

\* the row whose name the pick of the k-th label shows
PickedRow(k) ==
    CHOOSE i \in 1..Len(df.rows) :
        PyStr(df.rows[i][BAMEI]) = ret.picks[PredictionRoles[k]].name

\* C1: for a non-empty table of n rows with the entrant-number column,
\* exactly the first min(5, n) labels are assigned; the k-th label shows the
\* name and number of a row that is k-th in the order 'base score
\* descending, then entrant number ascending' (fewer than k rows are ahead
\* of it, at least k rows are not behind it); no two labels show the same row.
C1_LabelsFollowRanking ==
    (RankDone /\ UMABAN \in df.columns) =>
        LET n == Len(df.rows)
            m == IF n < 5 THEN n ELSE 5
            score == ScoreColumn(df)
        IN  /\ DOMAIN ret.picks = {PredictionRoles[k] : k \in 1..m}
            /\ \A k \in 1..m :
                 LET pick == ret.picks[PredictionRoles[k]]
                     r == PickedRow(k)
                 IN  /\ \E i \in 1..n : PyStr(df.rows[i][BAMEI]) = pick.name
                     /\ pick.label = PredictionRoles[k]
                     /\ pick.number = PyStr(df.rows[r][UMABAN])
                     /\ Cardinality({j \in 1..n : Ahead(score, j, r)}) < k
                     /\ Cardinality({j \in 1..n : ~Ahead(score, r, j)}) >= k
            /\ \A k1, k2 \in 1..m : k1 # k2 => PickedRow(k1) # PickedRow(k2)

\* a table of more rows than labels, in which the entrant number decides a
\* tie against the table order
C1_Witness ==
    /\ RankDone /\ UMABAN \in df.columns
    /\ Len(df.rows) > Len(PredictionRoles)
    /\ Cardinality(DOMAIN ret.picks) = Len(PredictionRoles)
    /\ \E i, j \in 1..Len(df.rows) :
          i < j /\ ScoreColumn(df)[i] = ScoreColumn(df)[j] /\ RowNumber(j) < RowNumber(i)
          /\ ret.picks[PredictionRoles[1]].name = PyStr(df.rows[j][BAMEI])

\* C2: without the entrant-number column, two rows of equal score that both
\* get a label keep their table order.
C2_StableWithoutNumber ==
    (RankDone /\ UMABAN \notin df.columns /\ BAMEI \in df.columns) =>
        \A k1, k2 \in 1..Cardinality(DOMAIN ret.picks) :
            (k1 < k2 /\ ScoreColumn(df)[PickedRow(k1)] = ScoreColumn(df)[PickedRow(k2)])
                => PickedRow(k1) < PickedRow(k2)

\* C7: for an empty table both build_prediction and build_prediction_with_llm
\* return the empty label mapping and the "data is empty" message, with no
\* row scored and the collaborator not called.
C7_EmptyShortCircuits ==
    (pc = "done" /\ (Len(df.rows) = 0 \/ df.columns = {})) =>
        /\ DOMAIN ret.picks = {}
        /\ ret.buy.kind = "empty"
        /\ scored = <<>>
        /\ llmCalls = 0
        /\ content = NoContent

\* the overlay variant returned for a table that has columns and no rows
C7_Witness ==
    /\ pc = "done" /\ op = "build_prediction_with_llm"
    /\ Len(df.rows) = 0 /\ df.columns # {}
    /\ ret.buy.kind = "empty"

\* the entrant numbers shown by the picks of the first three labels
TopShown ==
    LET m == IF Cardinality(DOMAIN ret.picks) < 3
             THEN Cardinality(DOMAIN ret.picks) ELSE 3
    IN  [k \in 1..m |-> ret.picks[PredictionRoles[k]].number]

\* the numbers t[1..k], each two joined by the separator glyph
Tier(t, k) ==
    CASE k = 1 -> t[1]
      [] k = 2 -> t[1] \o <<SEP>> \o t[2]
      [] k = 3 -> t[1] \o <<SEP>> \o t[2] \o <<SEP>> \o t[3]

IsPrefix(a, b) == Len(a) <= Len(b) /\ SubSeq(b, 1, Len(a)) = a

\* C8: for a non-empty table of n rows, tier k of the bet plan lists the
\* entrant numbers of the first min(k, n) ranked rows, those shown for labels
\* 1 to min(k, n), in rank order and joined by the separator glyph; tier 1 is
\* a prefix of tier 2 and tier 2 a prefix of tier 3.
C8_TiersListTopNumbers ==
    RankDone =>
        LET n == Len(df.rows)
            t == TopShown
        IN  /\ Len(t) = (IF n < 3 THEN n ELSE 3)
            /\ ret.buy.kind = "formation"
            /\ ret.buy.tier1 = Tier(t, 1)
            /\ ret.buy.tier2 = Tier(t, IF n < 2 THEN n ELSE 2)
            /\ ret.buy.tier3 = Tier(t, IF n < 3 THEN n ELSE 3)
            /\ IsPrefix(ret.buy.tier1, ret.buy.tier2)
            /\ IsPrefix(ret.buy.tier2, ret.buy.tier3)

\* three or more rows, and the three tiers differ
C8_Witness ==
    /\ RankDone /\ UMABAN \in df.columns /\ Len(df.rows) >= 3
    /\ ret.buy.tier1 = <<"1">>
    /\ ret.buy.tier2 = <<"1", SEP, "2">>
    /\ ret.buy.tier3 = <<"1", SEP, "2", SEP, "1">>

----------------------------------------------------------------------------
(* Claims about the single-entrant evaluator (SpecEval) *)

\* the rows of the table whose entrant number is the number asked for
Matching ==
    IF UMABAN \in df.columns
    THEN {i \in 1..Len(df.rows) :
            df.rows[i][UMABAN].t \in {"int", "float"}
            /\ df.rows[i][UMABAN].v = number * ONE}
    ELSE {}

EvalDone == pc = "done" /\ op = "evaluate_single"
EvalFound == EvalDone /\ Matching # {}

\* the evaluated row: the first matching row
TargetRow == df.rows[CHOOSE i \in Matching : \A j \in Matching : i <= j]

\* r is x rounded to two decimals: a multiple of 0.01 at most 0.005 from x
IsRound2(x, r) == r % 100 = 0 /\ 2 * Abs(x - r) <= 100

\* 0.5 * h + 0.3 * j + 0.2 * c
Blend(h, j, c) == (5 * h + 3 * j + 2 * c) \div 10

\* C3 as stated: overall_score = round(0.5 * horse_score + 0.3 * jockey_score
\* + 0.2 * course_score, 2) for the sub-scores stored in the returned record.
C3_OverallFromStored ==
    EvalFound =>
        IsRound2(Blend(ret.horse_score, ret.jockey_score, ret.course_score),
                 ret.overall_score)

\* C3 as amended: overall_score = round(0.5 * h + 0.3 * j + 0.2 * c, 2) for
\* the sub-scores h, j, c as computed from the row, before they are rounded;
\* the record stores round(h, 2), round(j, 2) and round(c, 2).
C3_OverallFromUnrounded ==
    EvalFound =>
        LET h == HorseScore(TargetRow)
            j == JockeyScore(TargetRow)
            c == CourseScore(TargetRow)
        IN  /\ IsRound2(Blend(h, j, c), ret.overall_score)
            /\ IsRound2(h, ret.horse_score)
            /\ IsRound2(j, ret.jockey_score)
            /\ IsRound2(c, ret.course_score)

\* sub-scores with a third decimal: 0.014 and 0.034 are stored as 0.01 and
\* 0.03, and the overall score is 0.02
C3_Witness ==
    /\ EvalFound
    /\ HorseScore(TargetRow) = 140 /\ JockeyScore(TargetRow) = 340
    /\ CourseScore(TargetRow) = 0
    /\ ret.horse_score = 100 /\ ret.jockey_score = 300
    /\ ret.overall_score = 200

\* coerce(value, default) of a field that may be absent: an absent field is
\* coerced like None
CoerceField(row, key, default) ==
    IF key \in DOMAIN row THEN _safe_numeric(row[key], default) ELSE default

\* C5 as stated: the entrant sub-score is coerce(potential, default =
\* coerce(alt power, 0)) + coerce(training, 0) and the venue sub-score is
\* coerce(venue index, default = coerce(course aptitude, 0)): the fallback is
\* used whenever the primary field is absent, None or unparseable.
C5_FallbackAsDefault ==
    EvalFound =>
        LET row == TargetRow
        IN  /\ IsRound2(CoerceField(row, UMA_POTENTIAL, CoerceField(row, BARIKI_SHISU, 0))
                        + CoerceField(row, CHOKYO_HYOKA, 0), ret.horse_score)
            /\ IsRound2(CoerceField(row, NAKAYAMA_SHISU, CoerceField(row, COURSE_TEKISEI, 0)),
                        ret.course_score)

\* C5 as amended: the fallback field is read only when the primary column is
\* absent from the table; a primary field that is present counts with
\* coerce(primary, 0), so None and unparseable text count 0 whatever the
\* fallback field holds.
C5_FallbackOnlyWhenAbsent ==
    EvalFound =>
        LET row == TargetRow
            entrant == IF UMA_POTENTIAL \in DOMAIN row
                       THEN CoerceField(row, UMA_POTENTIAL, 0)
                       ELSE CoerceField(row, BARIKI_SHISU, 0)
            venue == IF NAKAYAMA_SHISU \in DOMAIN row
                     THEN CoerceField(row, NAKAYAMA_SHISU, 0)
                     ELSE CoerceField(row, COURSE_TEKISEI, 0)
        IN  /\ IsRound2(entrant + CoerceField(row, CHOKYO_HYOKA, 0), ret.horse_score)
            /\ IsRound2(venue, ret.course_score)

\* the potential index is None beside a power index of 2.0, and counts 0;
\* the venue index is absent, and the course aptitude of 3.0 is used
C5_Witness ==
    /\ EvalFound
    /\ UMA_POTENTIAL \in DOMAIN TargetRow /\ TargetRow[UMA_POTENTIAL] = NoneV
    /\ BARIKI_SHISU \in DOMAIN TargetRow /\ TargetRow[BARIKI_SHISU] = FloatV(2 * ONE)
    /\ CHOKYO_HYOKA \notin DOMAIN TargetRow
    /\ NAKAYAMA_SHISU \notin DOMAIN TargetRow
    /\ COURSE_TEKISEI \in DOMAIN TargetRow
    /\ ret.horse_score = 0
    /\ ret.course_score = 3 * ONE

\* C6: evaluate_single never raises; when the entrant-number column is
\* absent or no row has the number, it returns a record with the requested
\* number, all four scores 0.0 and the "not found" comment; the "not found"
\* comment is returned in those two cases only.
C6_NotFoundIsZeroRecord ==
    EvalDone =>
        /\ raised = "none"
        /\ (Matching = {}) <=> (ret.horse_comment.tpl = "not_found")
        /\ (Matching = {}) =>
              /\ ret.number = number
              /\ ret.horse_score = 0 /\ ret.jockey_score = 0
              /\ ret.course_score = 0 /\ ret.overall_score = 0
        /\ (Matching # {}) =>
              /\ ret.number = number
              /\ ret.horse_comment.tpl = "horse"
              /\ ret.jockey_comment.tpl = "jockey"
              /\ ret.course_comment.tpl = "course"

\* the column is there, the table has rows, and none has the number
C6_Witness ==
    /\ EvalDone
    /\ UMABAN \in df.columns /\ Len(df.rows) = 2 /\ Matching = {}
    /\ number = 3
    /\ ret.horse_comment.tpl = "not_found" /\ ret.number = 3 /\ ret.overall_score = 0

----------------------------------------------------------------------------
(* Claims about the narrative overlay (SpecOverlay) *)

OverlayOps ==
    {"build_prediction_with_llm", "evaluate_single_with_llm",
     "build_sign_theory_plan_with_llm"}

\* the reply does not parse as the expected object: it is not JSON, or JSON
\* that is no object, or an object whose overall_score is not a number
UnusableReply ==
    /\ content.called
    /\ \/ ~content.wellformed
       \/ content.value.j # "dict"
       \/ /\ "overall_score" \in content.value.keys
          /\ content.value.items["overall_score"].j # "number"

\* C4: in every overlay entry point a reply that does not parse as the
\* expected object never raises to the caller; a result is returned.
C4_OverlayNeverRaises ==
    (pc = "done" /\ op \in OverlayOps /\ UnusableReply) =>
        /\ raised = "none"
        /\ ret # <<>>

----------------------------------------------------------------------------
(* Claims about the numerology plan builder (SpecSign) *)

SignDone == pc = "done" /\ op = "build_sign_theory_plan"

\* the events the plan is built from: the supplied list, or the built-in
\* list when none (or an empty list) is supplied
EffectiveEvents ==
    IF events.none \/ Len(events.list) = 0 THEN default_events ELSE events.list

\* every digit of the events
EventDigits ==
    UNION {{EffectiveEvents[i].numbers[k] : k \in 1..Len(EffectiveEvents[i].numbers)} :
              i \in 1..Len(EffectiveEvents)}

\* pair p comes before pair q in lexicographic order
LexLess(p, q) == p[1] < q[1] \/ (p[1] = q[1] /\ p[2] < q[2])

\* C9: unique_numbers holds exactly the event digits d with 1 <= d <= 18,
\* in strictly ascending order; the pair list holds the first 10 (or all, if
\* fewer) of the pairs (a, b), a < b, of unique_numbers in lexicographic
\* order, never more than 10 and never a digit outside unique_numbers.
C9_UniqueNumbersAndPairs ==
    SignDone =>
        LET u == ret.unique_numbers
            p == ret.pairings
            valid == {d \in EventDigits : 1 <= d /\ d <= 18}
            all == {<<a, b>> : a \in valid, b \in valid} \cap
                   {q \in valid \X valid : q[1] < q[2]}
            listed == {p[k] : k \in 1..Len(p)}
        IN  /\ {u[i] : i \in 1..Len(u)} = valid
            /\ \A i \in 1..Len(u) - 1 : u[i] < u[i + 1]
            /\ Len(p) = (IF Cardinality(all) < 10 THEN Cardinality(all) ELSE 10)
            /\ listed \subseteq all
            /\ \A k \in 1..Len(p) - 1 : LexLess(p[k], p[k + 1])
            /\ \A q \in all \ listed : \A k \in 1..Len(p) : LexLess(p[k], q)

\* supplied events with digits outside 1..18, a repeated digit, and more
\* than 10 pairs to choose from
C9_Witness ==
    /\ SignDone /\ ~events.none /\ Len(events.list) = 3
    /\ \E d \in EventDigits : d > 18
    /\ 18 \in EventDigits
    /\ Len(ret.unique_numbers) >= 6
    /\ Len(ret.pairings) = 10

\* the step string the source formats for event e: its title and its digits,
\* in order, as decimal numerals
IsStepOf(step, e) ==
    /\ step.title = e.title
    /\ step.numbers = Join(COMMA, [k \in 1..Len(e.numbers) |-> NatDigits(e.numbers[k])])

\* the digits of the events of list
DigitsOf(list) ==
    UNION {{list[i].numbers[k] : k \in 1..Len(list[i].numbers)} : i \in 1..Len(list)}

\* the events that the steps and unique_numbers of the result come from
BuiltFrom(list) ==
    /\ Len(ret.steps) = Len(list)
    /\ \A i \in 1..Len(list) : IsStepOf(ret.steps[i], list[i])
    /\ {ret.unique_numbers[i] : i \in 1..Len(ret.unique_numbers)}
          = {d \in DigitsOf(list) : 1 <= d /\ d <= 18}

\* C12: build_sign_theory_plan uses the built-in list of 4 default events
\* only when no events argument is supplied; for every supplied events list,
\* the empty list included, the steps hold exactly one step string per
\* supplied event, in input order, and unique_numbers is derived only from
\* the digits of the supplied events.
C12_DefaultsOnlyWhenNotSupplied ==
    SignDone =>
        IF events.none THEN Len(default_events) = 4 /\ BuiltFrom(default_events)
        ELSE BuiltFrom(events.list)

----------------------------------------------------------------------------
(* Claims about the feature scorer (SpecScore) *)

ScoreDone == pc = "done" /\ op = "_compute_base_score"

\* the trimmed value of the field is one of the qualifying marks: the field
\* is text made of one mark and spaces
Qualifies(row, key) ==
    /\ key \in DOMAIN row
    /\ row[key].t = "str"
    /\ \E i \in 1..Len(row[key].s) :
          /\ row[key].s[i] \in {"DCIRCLE", "CIRCLE", "TRIANGLE", "A", "B"}
          /\ \A k \in 1..Len(row[key].s) : k # i => row[key].s[k] = " "

\* the field is missing or not parseable as a number
Unusable(row, key) ==
    \/ key \notin DOMAIN row
    \/ row[key].t = "none"
    \/ row[key].t = "str" /\ ~ParseFloat(strip(row[key].s)).ok

\* C10: base_score = coerce(overall rating) + coerce(recent form)
\* + coerce(speed index) + 0.5 * coerce(training evaluation) + 1.5 * (number
\* of the three bonus fields whose trimmed value qualifies); a numeric field
\* that is missing or not parseable contributes 0; the total bonus is one of
\* 0, 1.5, 3.0, 4.5.
C10_BaseScoreFormula ==
    ScoreDone =>
        LET row == df.rows[1]
            flags == {JUSHO_JISSEKI, NAKAYAMA_JISSEKI, SHIBA_TEKISEI}
            count == Cardinality({f \in flags : Qualifies(row, f)})
            core == CoerceField(row, SOGO_HYOKA, 0) + CoerceField(row, KINSO_SHISU, 0)
                    + CoerceField(row, SPEED_SHISU, 0)
                    + (5 * CoerceField(row, CHOKYO_HYOKA, 0)) \div 10
        IN  /\ ret = core + count * 15000
            /\ ret - core \in {0, 15000, 30000, 45000}
            /\ \A key \in {SOGO_HYOKA, KINSO_SHISU, SPEED_SHISU, CHOKYO_HYOKA} :
                  Unusable(row, key) => CoerceField(row, key, 0) = 0

\* a row with an unparseable rating, no speed column, a parsed rating text
\* and two qualifying flags beside one that does not qualify
C10_Witness ==
    /\ ScoreDone
    /\ LET row == df.rows[1]
       IN  /\ SOGO_HYOKA \in DOMAIN row /\ row[SOGO_HYOKA] = StrV(<<"a", "b", "c">>)
           /\ SPEED_SHISU \notin DOMAIN row
           /\ CHOKYO_HYOKA \in DOMAIN row /\ row[CHOKYO_HYOKA] = FloatV(ONE)
           /\ KINSO_SHISU \in DOMAIN row /\ row[KINSO_SHISU] = FloatV(ONE + 5000)
           /\ Qualifies(row, JUSHO_JISSEKI) /\ Qualifies(row, NAKAYAMA_JISSEKI)
           /\ SHIBA_TEKISEI \in DOMAIN row /\ ~Qualifies(row, SHIBA_TEKISEI)
    /\ ret = 15000 + 5000 + 30000

----------------------------------------------------------------------------
(* Claims about the numeric coercion (SpecCoerce) *)

CoerceDone == pc = "done" /\ op = "_safe_numeric"

\* the index of the first and of the last character of s that is not a space
FirstInk(s) ==
    CHOOSE i \in 1..Len(s) : s[i] # " " /\ \A k \in 1..(i - 1) : s[k] = " "
LastInk(s) ==
    CHOOSE i \in 1..Len(s) : s[i] # " " /\ \A k \in (i + 1)..Len(s) : s[k] = " "

\* s without its leading and trailing spaces
Trimmed(s) ==
    IF \A i \in 1..Len(s) : s[i] = " " THEN <<>>
    ELSE SubSeq(s, FirstInk(s), LastInk(s))

\* s is a decimal numeral: an optional sign, digits with at most one point,
\* at least one digit
IsNumeral(s) ==
    LET body == IF s # <<>> /\ s[1] \in {"+", "-"} THEN Tail(s) ELSE s
    IN  /\ \A i \in 1..Len(body) : body[i] \in DigitSet \cup {"."}
        /\ Cardinality({i \in 1..Len(body) : body[i] = "."}) <= 1
        /\ \E i \in 1..Len(body) : body[i] \in DigitSet

\* the rules of coerce(value, default), applied in order, give r
CoerceRules(v, d, r) ==
    IF v.t = "none" THEN r = d
    ELSE IF v.t \in {"int", "float"} THEN r = v.v
    ELSE IF v.t = "str"
    THEN IF IsNumeral(Trimmed(v.s)) THEN r = ParseFloat(Trimmed(v.s)).v ELSE r = d
    ELSE TRUE

\* C11: coerce(value, default) never raises and applies its rules in order:
\* None yields default; an already-numeric value yields that value as a
\* float; any other value yields the number parsed from its trimmed string
\* form, or default when that string (the empty string and non-numeric text
\* included) does not parse.
C11_CoerceNeverRaises ==
    CoerceDone => raised = "none" /\ CoerceRules(coerceValue, coerceDefault, ret)

----------------------------------------------------------------------------
(* Claims about the bundled app (SpecApp) *)

LlmVariants ==
    {"build_prediction_with_llm", "evaluate_single_with_llm",
     "build_sign_theory_plan_with_llm"}

DeterministicVariants ==
    {"build_prediction", "evaluate_single", "build_sign_theory_plan"}

\* an API credential is configured: the secrets hold a non-empty key
CredentialPresent == secrets \notin {"absent", ""}

\* a button of this run has called its feature
FeatureInvoked == op = "app" /\ invoked # "none"

\* C13: in the bundled app the generator-backed variant of a feature is the
\* one invoked exactly when an API credential is present, the deterministic
\* variant exactly when it is absent, and the mode announced (LLM-mode
\* notice or fallback warning) matches the variant that a button invokes,
\* also when the construction of the client fails.
C13_NoticeMatchesVariant ==
    FeatureInvoked =>
        /\ (invoked \in LlmVariants) <=> CredentialPresent
        /\ (invoked \in DeterministicVariants) <=> ~CredentialPresent
        /\ (notice = "info") <=> (invoked \in LlmVariants)
        /\ (notice = "warning") <=> (invoked \in DeterministicVariants)

====
